---- MODULE Spec2Model ----
(***************************************************************************)
(* A model of modules/sfp_accounts.py (SpiderFoot's "Account Finder"):      *)
(* the per-site match evaluator checkSite, the worker pool of checkSites,  *)
(* and the session logic of setup / handleEvent with its distrust          *)
(* calibration and the cached distrust state.                              *)
(*                                                                         *)
(* Strings are sequences of one-character strings, so that substring       *)
(* tests, lower(), split() and format() are computed as Python computes    *)
(* them.  An optional value (None / a missing dict key) is the empty       *)
(* sequence, a present value x is <<x>>.                                   *)
(***************************************************************************)
EXTENDS Integers, Sequences, FiniteSets, Bags, TLC

(***************************************************************************)
(* Bounds of the model.                                                    *)
(***************************************************************************)
\* largest value of the _maxthreads option that is tried
MaxThreads == 2
\* largest value of _maxthreads that the userOpts of a session give
MaxUserThreads == 1
\* number of setup() calls (sessions) in one behaviour
MaxSetups == 2

(***************************************************************************)
(* Optional values.                                                        *)
(***************************************************************************)
None == <<>>
Some(x) == <<x>>
IsNone(o) == o = <<>>
Val(o) == o[1]

Min(a, b) == IF a <= b THEN a ELSE b

(***************************************************************************)
(* Strings.                                                                *)
(***************************************************************************)
UpperAlphabet ==
    <<"A","B","C","D","E","F","G","H","I","J","K","L","M",
      "N","O","P","Q","R","S","T","U","V","W","X","Y","Z">>
LowerAlphabet ==
    <<"a","b","c","d","e","f","g","h","i","j","k","l","m",
      "n","o","p","q","r","s","t","u","v","w","x","y","z">>

\* str.lower() on one character
LowerChar(c) ==
    IF \E i \in 1..26 : UpperAlphabet[i] = c
    THEN LowerAlphabet[CHOOSE i \in 1..26 : UpperAlphabet[i] = c]
    ELSE c

\* str.lower()
Lower(s) == [i \in 1..Len(s) |-> LowerChar(s[i])]

\* index of the first occurrence of sub in s, 0 when there is none (str.find + 1)
Find(sub, s) ==
    LET hits == { i \in 1..(Len(s) - Len(sub) + 1) :
                     SubSeq(s, i, i + Len(sub) - 1) = sub }
    IN IF hits = {} THEN 0 ELSE CHOOSE i \in hits : \A j \in hits : i <= j

\* the Python test  sub in s
Contains(sub, s) == Find(sub, s) # 0

\* s.split(sep)[0]
SplitFirst(s, sep) ==
    IF Find(sep, s) = 0 THEN s ELSE SubSeq(s, 1, Find(sep, s) - 1)

\* s.split(sep), the whole list
RECURSIVE Split(_, _)
Split(s, sep) ==
    IF Find(sep, s) = 0 THEN <<s>>
    ELSE <<SubSeq(s, 1, Find(sep, s) - 1)>>
         \o Split(SubSeq(s, Find(sep, s) + Len(sep), Len(s)), sep)

\* s.replace(" ", "")
RemoveSpaces(s) == SelectSeq(s, LAMBDA c : c # " ")

\* s.replace(" ", ".")
SpacesToDots(s) == [i \in 1..Len(s) |-> IF s[i] = " " THEN "." ELSE s[i]]

\* concatenation of a list of strings
RECURSIVE Concat(_)
Concat(ss) == IF ss = <<>> THEN <<>> ELSE Head(ss) \o Concat(Tail(ss))

\* elements of a list
Range(f) == { f[i] : i \in DOMAIN f }

(***************************************************************************)
(* Text constants of the module.                                           *)
(***************************************************************************)
\* " (Category: "  (line 106)
CategoryOpen == <<" ","(","C","a","t","e","g","o","r","y",":"," ">>
\* ")\n<SFURL>"  (line 106)
UrlOpen == <<")","\n","<","S","F","U","R","L",">">>
\* "</SFURL>"  (line 106)
UrlClose == <<"<","/","S","F","U","R","L",">">>
\* " (Category:", the separator handleEvent splits a label on (line 235)
CategorySplit == <<" ","(","C","a","t","e","g","o","r","y",":">>
\* "None", written to the state cache when no site is distrusted (lines 221, 241)
NoneMarker == <<"N","o","n","e">>
\* the replacement field of a check_uri template, as one token of the template
AccountField == "{account}"
\* the template tokens that are replacement fields of another name
OtherFields == {"{user}"}

(***************************************************************************)
(* Site definitions: the entries of the catalog feed.  A key that the      *)
(* entry does not have is None.                                            *)
(***************************************************************************)
Site(name, category, uri, valid, code, str) ==
    [name |-> name, category |-> category, check_uri |-> uri,
     valid |-> valid, account_existence_code |-> code,
     account_existence_string |-> str]

txtOk == <<"o","k">>
txtA == <<"A">>
txtB == <<"B">>
txtC == <<"c">>

SiteDefs ==
    [ A  |-> Site(Some(txtA), Some(txtC), Some(<<"a","/",AccountField>>),
                  Some(TRUE), Some(200), Some(txtOk)),
      B  |-> Site(Some(txtB), Some(txtC), Some(<<"b","/",AccountField>>),
                  Some(TRUE), Some(200), Some(txtOk)),
      \* shares its name with A, under another URL
      A2 |-> Site(Some(txtA), Some(txtC), Some(<<"z","/",AccountField>>),
                  Some(TRUE), Some(200), Some(txtOk)),
      \* a name that contains the text " (Category:"
      Q  |-> Site(Some(txtA \o CategorySplit \o <<"x">>), Some(txtC),
                  Some(<<"q","/",AccountField>>),
                  Some(TRUE), Some(200), Some(txtOk)),
      \* no check_uri
      M  |-> Site(Some(<<"M">>), Some(txtC), None,
                  Some(TRUE), Some(200), Some(txtOk)),
      \* a check_uri with a replacement field other than {account}
      K  |-> Site(Some(<<"K">>), Some(txtC), Some(<<"k","/","{user}">>),
                  Some(TRUE), Some(200), Some(txtOk)),
      \* no account_existence_string
      N  |-> Site(Some(<<"N">>), Some(txtC), Some(<<"n","/",AccountField>>),
                  Some(TRUE), Some(200), None),
      \* the empty account_existence_string and no account_existence_code
      E  |-> Site(Some(<<"E">>), Some(txtC), Some(<<"e","/",AccountField>>),
                  Some(TRUE), None, Some(<<>>)),
      \* not valid
      I  |-> Site(Some(<<"I">>), Some(txtC), Some(<<"i","/",AccountField>>),
                  Some(FALSE), Some(200), Some(txtOk)),
      \* no valid key
      V  |-> Site(Some(<<"V">>), Some(txtC), Some(<<"v","/",AccountField>>),
                  None, Some(200), Some(txtOk)),
      \* the empty name
      Z  |-> Site(Some(<<>>), Some(txtC), Some(<<"y","/",AccountField>>),
                  Some(TRUE), Some(200), Some(txtOk)),
      \* the name "None"
      O  |-> Site(Some(NoneMarker), Some(txtC), Some(<<"o","/",AccountField>>),
                  Some(TRUE), Some(200), Some(txtOk)) ]

SiteDef(id) == SiteDefs[id]

(***************************************************************************)
(* checkSite (lines 101-148).                                              *)
(***************************************************************************)
\* whether template.format(account=name) finds all its fields (line 105)
FormatOK(template) == \A i \in 1..Len(template) : template[i] \notin OtherFields

\* template.format(account=name) (line 105)
RECURSIVE Format(_, _)
Format(template, name) ==
    IF template = <<>> THEN <<>>
    ELSE (IF Head(template) = AccountField THEN name ELSE <<Head(template)>>)
         \o Format(Tail(template), name)

\* retname (line 106)
RetName(name, site) ==
    Val(site.name) \o CategoryOpen \o Val(site.category) \o UrlOpen
        \o Format(Val(site.check_uri), name) \o UrlClose

\* not res['content'] (line 116)
NoContent(res) == IsNone(res.content) \/ Val(res.content) = <<>>

\* res['code'] != site.get('account_existence_code') (line 121)
WrongCode(res, site) == res.code # site.account_existence_code

\* a variant of NotMentioned that compares without lower()
NotMentionedExactCase(name, content) == ~Contains(name, content)

\* name.lower() not in res['content'].lower() (line 132)
NotMentioned(name, content) == ~Contains(Lower(name), Lower(content))

\* a variant of PunctuationClash that does not split the name at the "."
PunctuationClashWholeName(name, content) ==
    /\ Contains(<<".">>, name)
    /\ \/ Contains(name \o <<"<">>, content)
       \/ Contains(name \o <<"\"">>, content)

\* the test of lines 140-142
PunctuationClash(name, content) ==
    /\ Contains(<<".">>, name)
    /\ LET firstname == SplitFirst(name, <<".">>)
       IN \/ Contains(firstname \o <<"<">>, content)
          \/ Contains(firstname \o <<"\"">>, content)

\* lines 102-108: checkSite gets as far as calling fetchUrl
Fetches(site) ==
    /\ ~IsNone(site.check_uri)
    /\ FormatOK(Val(site.check_uri))
    /\ ~IsNone(site.name)
    /\ ~IsNone(site.category)

\* the outcomes of one checkSite call
Skipped == [kind |-> "skipped", label |-> <<>>, found |-> FALSE]
Raised == [kind |-> "raised", label |-> <<>>, found |-> FALSE]
Wrote(label, found) == [kind |-> "wrote", label |-> label, found |-> found]

\* checkSite(name, site), given the response res that fetchUrl returns
CheckSite(name, site, res, musthavename) ==
    IF IsNone(site.check_uri) THEN Skipped
    ELSE IF ~Fetches(site) THEN Raised
    ELSE LET retname == RetName(name, site) IN
      IF NoContent(res) THEN Wrote(retname, FALSE)
      ELSE IF WrongCode(res, site) THEN Wrote(retname, FALSE)
      ELSE IF IsNone(site.account_existence_string) THEN Raised
      ELSE IF ~Contains(Val(site.account_existence_string), Val(res.content))
           THEN Wrote(retname, FALSE)
      ELSE IF musthavename /\ NotMentioned(name, Val(res.content))
           THEN Wrote(retname, FALSE)
      ELSE IF PunctuationClash(name, Val(res.content))
           THEN Wrote(retname, FALSE)
      ELSE Wrote(retname, TRUE)

(***************************************************************************)
(* The state.                                                              *)
(***************************************************************************)
VARIABLES
    opts,               \* the options the code reads (the class-level dict)
    sites,              \* self.sites, a list of site ids
    errorState,         \* self.errorState
    distrustedChecked,  \* self.distrustedChecked
    results,            \* keys of self.results
    reportedUsers,      \* self.reportedUsers
    siteResults,        \* self.siteResults, entries in insertion order
    catCache,           \* content cached under "sfaccounts"
    stateCache,         \* content cached under "sfaccounts_state_v2"
    emitted,            \* bag of the events notified to listeners this session
    pc,                 \* where the module's thread is
    event,              \* the event handleEvent is handling
    username,           \* checkSites: username
    scanSites,          \* checkSites: sites
    queue,              \* checkSites: queue (positions in scanSites)
    wpc,                \* the scan threads: where each one is
    ret,                \* what the last checkSites call returned
    resp,               \* history: the response each site's probe got
    rec,                \* history: what each site's probe recorded
    distrust,           \* history: delsites of this session
    calRounds,          \* history: calibration rounds run
    nSetup,             \* history: setup calls
    probes,             \* history: the checkSite calls made for each site
    lookups,            \* history: bag of the names looked up this session
    calSites,           \* history: self.sites as the calibration left it
    lock,               \* self.lock: the thread that holds it, if any
    calls               \* checkSites calls that overlap on one instance

scanVars == <<username, scanSites, queue, wpc, siteResults, resp, rec, probes>>
histVars == <<lookups, calSites, lock, calls>>
sessionVars == <<opts, sites, errorState, distrustedChecked, results,
                 reportedUsers, catCache, stateCache, emitted, event,
                 distrust, calRounds, nSetup, histVars>>
vars == <<opts, sites, errorState, distrustedChecked, results, reportedUsers,
          siteResults, catCache, stateCache, emitted, pc, event, username,
          scanSites, queue, wpc, ret, resp, rec, distrust, calRounds, nSetup,
          probes, lookups, calSites, lock, calls>>

(***************************************************************************)
(* checkSites (lines 150-192).                                             *)
(***************************************************************************)
\* where a scan thread is: before queue.get, inside checkSite, or returned
AtGet == [at |-> "get", item |-> 0]
Probing(i) == [at |-> "probe", item |-> i]
Exited == [at |-> "done", item |-> 0]

\* the record of a site whose checkSite call has not returned yet
NotProbed == [kind |-> "unprobed", label |-> <<>>, found |-> FALSE]

\* a variant of NumThreads that starts one thread per site
NumThreadsPerSite(n) == n

\* range(min(len(sites), self.opts['_maxthreads'])) (line 176)
NumThreads(n) == Min(n, opts.maxthreads)

\* self.siteResults[retname] = found: a new key goes last, a key that is
\* there keeps its place (lines 117-148)
DictSet(d, key, value) ==
    IF \E i \in 1..Len(d) : d[i].key = key
    THEN [i \in 1..Len(d) |->
             IF d[i].key = key THEN [key |-> key, found |-> value] ELSE d[i]]
    ELSE Append(d, [key |-> key, found |-> value])

\* a variant of FoundLabels that returns every key
FoundLabelsAll(d) == [i \in 1..Len(d) |-> d[i].key]

\* the bag of the elements of a list
RECURSIVE BagOfSeq(_)
BagOfSeq(list) ==
    IF Len(list) = 0 THEN EmptyBag
    ELSE SetToBag({Head(list)}) (+) BagOfSeq(Tail(list))

\* [site for site, found in self.siteResults.items() if found] (line 192)
FoundLabels(d) ==
    LET hits == SelectSeq(d, LAMBDA e : e.found)
    IN [i \in 1..Len(hits) |-> hits[i].key]

\* lines 162-182: reset the results, load the queue, start the threads
StartScan(name, list) ==
    /\ username' = name
    /\ scanSites' = list
    /\ siteResults' = <<>>
    /\ queue' = [i \in 1..Len(list) |-> i]
    /\ wpc' = [w \in 1..NumThreads(Len(list)) |-> AtGet]
    /\ resp' = [i \in 1..Len(list) |-> None]
    /\ rec' = [i \in 1..Len(list) |-> NotProbed]
    /\ probes' = [i \in 1..Len(list) |-> 0]

Scanning == pc \in {"calibrate", "lookup", "checkSites"}

\* a variant of Dequeue that leaves the site in the queue
DequeuePeek(w) ==
    /\ Scanning
    /\ wpc[w] = AtGet
    /\ queue # <<>>
    /\ wpc' = [wpc EXCEPT ![w] = Probing(Head(queue))]
    /\ UNCHANGED <<username, scanSites, queue, siteResults, resp, rec, probes,
                   ret, pc>>
    /\ UNCHANGED sessionVars

\* line 154: queue.get returns a site
Dequeue(w) ==
    /\ Scanning
    /\ wpc[w] = AtGet
    /\ queue # <<>>
    /\ wpc' = [wpc EXCEPT ![w] = Probing(Head(queue))]
    /\ queue' = Tail(queue)
    /\ UNCHANGED <<username, scanSites, siteResults, resp, rec, probes, ret,
                   pc>>
    /\ UNCHANGED sessionVars

\* a variant of GetTimesOut: queue.get without a timeout never raises
GetBlocks == FALSE

\* line 154: queue.get(timeout=0.1) raises QueueEmpty on the empty queue
GetTimesOut == queue = <<>>

\* lines 154, 159-160: queue.get times out on the empty queue
ThreadExit(w) ==
    /\ Scanning
    /\ wpc[w] = AtGet
    /\ GetTimesOut
    /\ wpc' = [wpc EXCEPT ![w] = Exited]
    /\ UNCHANGED <<username, scanSites, queue, siteResults, resp, rec, probes,
                   ret, pc>>
    /\ UNCHANGED sessionVars

\* a variant of AfterCheckSite in which an exception ends the thread
AfterCheckSiteUncaught(out) == IF out.kind = "raised" THEN Exited ELSE AtGet

\* lines 155-158: where the thread goes after checkSite, raised or not
AfterCheckSite(out) == AtGet

\* lines 155-158 with 108-148: fetchUrl returns res, checkSite decides
Probe(w, res) ==
    /\ Scanning
    /\ wpc[w].at = "probe"
    /\ LET i == wpc[w].item
           out == CheckSite(username, SiteDef(scanSites[i]), res,
                            opts.musthavename)
       IN /\ siteResults' = IF out.kind = "wrote"
                            THEN DictSet(siteResults, out.label, out.found)
                            ELSE siteResults
          /\ resp' = [resp EXCEPT ![i] = IF Fetches(SiteDef(scanSites[i]))
                                          THEN Some(res) ELSE None]
          /\ rec' = [rec EXCEPT ![i] = out]
          /\ probes' = [probes EXCEPT ![i] = @ + 1]
          /\ wpc' = [wpc EXCEPT ![w] = AfterCheckSite(out)]
    /\ UNCHANGED <<username, scanSites, queue, ret, pc>>
    /\ UNCHANGED sessionVars

\* a variant of Joined that waits for the first thread only
JoinedFirst == IF Len(wpc) = 0 THEN TRUE ELSE wpc[1] = Exited

\* lines 185-186: every thread has been joined
Joined == \A w \in DOMAIN wpc : wpc[w] = Exited

\* lines 185-192 of a checkSites call made from outside handleEvent
CheckSitesReturn ==
    /\ pc = "checkSites"
    /\ Joined
    /\ ret' = FoundLabels(siteResults)
    /\ pc' = "returned"
    /\ UNCHANGED scanVars
    /\ UNCHANGED sessionVars

(***************************************************************************)
(* What fetchUrl may return to a probe.                                    *)
(***************************************************************************)
Response(code, content) == [code |-> code, content |-> content]

\* no body: the fetch failed
FetchFailed == Response(None, None)
\* another status code than the sites expect
FetchMiss == Response(Some(404), Some(<<"n","o">>))
\* the expected code and text, and the name that was asked for
FetchHit(name) == Response(Some(200), Some(txtOk \o <<" ">> \o name))
\* the expected code and text, without the name
FetchPlain == Response(Some(200), Some(txtOk))

FetchResults(name) == {FetchFailed, FetchMiss, FetchHit(name), FetchPlain}

\* the two of them that the probes of a session get
SessionFetchResults(name) == {FetchMiss, FetchHit(name)}

(***************************************************************************)
(* checkSites on its own: one call, with any of these arguments.           *)
(***************************************************************************)
txtBob == <<"b","o","b">>
txtBobAbc == <<"b","o","b",".","a","b","c">>

ScanNames == {txtBob, txtBobAbc}
ScanLists ==
    { <<>>, <<"A">>, <<"A","B">>, <<"A","A">>, <<"A","B","A2">>,
      <<"M","B">>, <<"K","B">>, <<"N","B">>, <<"Q","E","A">> }

\* the value of _maxthreads in the class (line 39)
DefaultMaxThreads == 50
MaxThreadsValues == (0..MaxThreads) \cup {DefaultMaxThreads}

DefaultOpts == [maxthreads |-> DefaultMaxThreads, musthavename |-> TRUE,
                ignorenamedict |-> TRUE, ignoreworddict |-> TRUE]

InitSession ==
    /\ sites = <<>>
    /\ errorState = FALSE
    /\ distrustedChecked = FALSE
    /\ results = {}
    /\ reportedUsers = {}
    /\ catCache = None
    /\ stateCache = None
    /\ emitted = EmptyBag
    /\ event = None
    /\ ret = <<>>
    /\ distrust = <<>>
    /\ calRounds = 0
    /\ nSetup = 0
    /\ lookups = EmptyBag
    /\ calSites = None
    /\ lock = None
    /\ calls = <<>>

InitScan ==
    /\ InitSession
    /\ pc = "checkSites"
    /\ \E m \in MaxThreadsValues, b \in BOOLEAN :
          opts = [DefaultOpts EXCEPT !.maxthreads = m, !.musthavename = b]
    /\ username \in ScanNames
    /\ scanSites \in ScanLists
    /\ siteResults = <<>>
    /\ queue = [i \in 1..Len(scanSites) |-> i]
    /\ wpc = [w \in 1..NumThreads(Len(scanSites)) |-> AtGet]
    /\ resp = [i \in 1..Len(scanSites) |-> None]
    /\ rec = [i \in 1..Len(scanSites) |-> NotProbed]
    /\ probes = [i \in 1..Len(scanSites) |-> 0]

NextScan ==
    \/ \E w \in DOMAIN wpc : Dequeue(w)
    \/ \E w \in DOMAIN wpc : ThreadExit(w)
    \/ \E w \in DOMAIN wpc : \E res \in FetchResults(username) : Probe(w, res)
    \/ CheckSitesReturn

SpecScan == InitScan /\ [][NextScan]_vars

\* the same, with threads that are scheduled and fetches that return
SpecScanFair == SpecScan /\ WF_vars(NextScan)

(***************************************************************************)
(* checkSite on its own: one site, one thread, any of these names, sites   *)
(* and responses.                                                          *)
(***************************************************************************)
ProbeNames == {txtBob, txtBobAbc, <<"B","o","b">>, <<".","a","b","c">>}
ProbeSites == {"A", "E", "N", "M", "K"}
ProbeBodies ==
    { <<>>,
      txtOk,
      txtOk \o <<" ">> \o txtBob,
      txtOk \o <<" ","B","O","B">>,
      txtOk \o <<" ">> \o txtBobAbc,
      txtOk \o <<" ","B","o","b",".","A","b","c">>,
      txtOk \o <<" ">> \o txtBobAbc \o <<" ">> \o txtBob \o <<"<">>,
      txtOk \o <<" ">> \o txtBobAbc \o <<" ">> \o txtBob \o <<"\"">>,
      txtOk \o <<" ">> \o txtBob \o <<"<">>,
      txtOk \o <<" ",".","a","b","c"," ","<">>,
      txtBobAbc,
      txtBob \o <<"<">> }
ProbeFetchResults ==
    {FetchFailed}
    \cup { Response(c, Some(b)) : c \in {None, Some(200), Some(404)},
                                  b \in ProbeBodies }

InitProbe ==
    /\ InitSession
    /\ pc = "checkSites"
    /\ \E b \in BOOLEAN : opts = [DefaultOpts EXCEPT !.musthavename = b]
    /\ username \in ProbeNames
    /\ scanSites \in { <<id>> : id \in ProbeSites }
    /\ siteResults = <<>>
    /\ queue = <<1>>
    /\ wpc = <<AtGet>>
    /\ resp = <<None>>
    /\ rec = <<NotProbed>>
    /\ probes = <<0>>

NextProbe ==
    \/ \E w \in DOMAIN wpc : Dequeue(w)
    \/ \E w \in DOMAIN wpc : ThreadExit(w)
    \/ \E w \in DOMAIN wpc : \E res \in ProbeFetchResults : Probe(w, res)
    \/ CheckSitesReturn

SpecProbe == InitProbe /\ [][NextProbe]_vars

(***************************************************************************)
(* checkSites with the steps of checkSite apart: the fetch and the checks, *)
(* then "with self.lock", the assignment to the map, the end of the with   *)
(* block.                                                                  *)
(***************************************************************************)
\* where a thread is inside checkSite: past the checks and before the with
\* statement, inside the with block before the assignment, and after it
Decided(i) == [at |-> "decided", item |-> i]
Locked(i) == [at |-> "locked", item |-> i]
Written(i) == [at |-> "written", item |-> i]

\* a variant of LockFree: a lock that any thread can take at any time
LockFreeAlways == TRUE

\* threading.Lock (line 67): acquire goes through when no thread holds it
LockFree == IsNone(lock)

\* what checkSite decides for site i on the response its fetch has returned
OutcomeAt(i) ==
    CheckSite(username, SiteDef(scanSites[i]),
              IF IsNone(resp[i]) THEN FetchFailed ELSE Val(resp[i]),
              opts.musthavename)

\* lines 102-146: fetchUrl returns res and the checks are made; checkSite
\* returns or raises here when it has nothing to write
Fetch(w, res) ==
    /\ Scanning
    /\ wpc[w].at = "probe"
    /\ LET i == wpc[w].item
           out == CheckSite(username, SiteDef(scanSites[i]), res,
                            opts.musthavename)
       IN /\ resp' = [resp EXCEPT ![i] = IF Fetches(SiteDef(scanSites[i]))
                                          THEN Some(res) ELSE None]
          /\ probes' = [probes EXCEPT ![i] = @ + 1]
          /\ IF out.kind = "wrote"
             THEN /\ wpc' = [wpc EXCEPT ![w] = Decided(i)]
                  /\ UNCHANGED rec
             ELSE /\ wpc' = [wpc EXCEPT ![w] = AfterCheckSite(out)]
                  /\ rec' = [rec EXCEPT ![i] = out]
    /\ UNCHANGED <<username, scanSites, queue, siteResults, ret, pc>>
    /\ UNCHANGED sessionVars

\* with self.lock: the lock is taken (lines 117, 122, 127, 134, 143, 147)
Acquire(w) ==
    /\ Scanning
    /\ wpc[w].at = "decided"
    /\ LockFree
    /\ lock' = Some(w)
    /\ wpc' = [wpc EXCEPT ![w] = Locked(wpc[w].item)]
    /\ UNCHANGED <<username, scanSites, queue, siteResults, resp, rec, probes,
                   ret, pc>>
    /\ UNCHANGED <<opts, sites, errorState, distrustedChecked, results,
                   reportedUsers, catCache, stateCache, emitted, event,
                   distrust, calRounds, nSetup, lookups, calSites, calls>>

\* self.siteResults[retname] = ... (lines 118, 123, 128, 135, 144, 148)
Write(w) ==
    /\ Scanning
    /\ wpc[w].at = "locked"
    /\ LET i == wpc[w].item
           out == OutcomeAt(i)
       IN /\ siteResults' = DictSet(siteResults, out.label, out.found)
          /\ rec' = [rec EXCEPT ![i] = out]
          /\ wpc' = [wpc EXCEPT ![w] = Written(i)]
    /\ UNCHANGED <<username, scanSites, queue, resp, probes, ret, pc>>
    /\ UNCHANGED sessionVars

\* the end of the with block: the lock is given back
Release(w) ==
    /\ Scanning
    /\ wpc[w].at = "written"
    /\ lock' = None
    /\ wpc' = [wpc EXCEPT ![w] = AfterCheckSite(rec[wpc[w].item])]
    /\ UNCHANGED <<username, scanSites, queue, siteResults, resp, rec, probes,
                   ret, pc>>
    /\ UNCHANGED <<opts, sites, errorState, distrustedChecked, results,
                   reportedUsers, catCache, stateCache, emitted, event,
                   distrust, calRounds, nSetup, lookups, calSites, calls>>

NextLock ==
    \/ \E w \in DOMAIN wpc : Dequeue(w)
    \/ \E w \in DOMAIN wpc : ThreadExit(w)
    \/ \E w \in DOMAIN wpc : \E res \in SessionFetchResults(username) :
          Fetch(w, res)
    \/ \E w \in DOMAIN wpc : Acquire(w)
    \/ \E w \in DOMAIN wpc : Write(w)
    \/ \E w \in DOMAIN wpc : Release(w)
    \/ CheckSitesReturn

SpecLock == InitScan /\ [][NextLock]_vars

(***************************************************************************)
(* Two checkSites calls on one instance that may overlap: each call has    *)
(* its own locals (username, queue, threads), self.siteResults is the      *)
(* instance's.                                                             *)
(***************************************************************************)
\* the locals of a checkSites call, before it is made
CallIdle(name) ==
    [pc |-> "idle", username |-> name, queue |-> <<>>, wpc |-> <<>>,
     rec |-> <<>>, ret |-> <<>>]

\* the names the two calls are made with
CallNames == <<txtBob, txtBobAbc>>

\* the site lists of the instance
CallSiteLists == { <<"A">>, <<"A","B">> }

CallIds == DOMAIN calls

\* what a step of a call leaves alone
callFrame == <<opts, sites, errorState, distrustedChecked, results,
               reportedUsers, catCache, stateCache, emitted, pc, event,
               username, scanSites, queue, wpc, ret, resp, rec, distrust,
               calRounds, nSetup, probes, lookups, calSites, lock>>

\* lines 162-182
CallStart(c) ==
    /\ calls[c].pc = "idle"
    /\ siteResults' = <<>>
    /\ calls' = [calls EXCEPT
          ![c].pc = "scanning",
          ![c].queue = [i \in 1..Len(sites) |-> i],
          ![c].wpc = [w \in 1..NumThreads(Len(sites)) |-> AtGet],
          ![c].rec = [i \in 1..Len(sites) |-> NotProbed]]
    /\ UNCHANGED callFrame

\* line 154: queue.get returns a site
CallDequeue(c, w) ==
    /\ calls[c].pc = "scanning"
    /\ calls[c].wpc[w] = AtGet
    /\ calls[c].queue # <<>>
    /\ calls' = [calls EXCEPT
          ![c].wpc[w] = Probing(Head(calls[c].queue)),
          ![c].queue = Tail(calls[c].queue)]
    /\ UNCHANGED siteResults
    /\ UNCHANGED callFrame

\* lines 154, 159-160: queue.get times out on the empty queue
CallThreadExit(c, w) ==
    /\ calls[c].pc = "scanning"
    /\ calls[c].wpc[w] = AtGet
    /\ calls[c].queue = <<>>
    /\ calls' = [calls EXCEPT ![c].wpc[w] = Exited]
    /\ UNCHANGED siteResults
    /\ UNCHANGED callFrame

\* lines 155-158 with 108-148: fetchUrl returns res, checkSite decides and
\* writes to self.siteResults under the lock
CallProbe(c, w, res) ==
    /\ calls[c].pc = "scanning"
    /\ calls[c].wpc[w].at = "probe"
    /\ LET i == calls[c].wpc[w].item
           out == CheckSite(calls[c].username, SiteDef(sites[i]), res,
                            opts.musthavename)
       IN /\ siteResults' = IF out.kind = "wrote"
                            THEN DictSet(siteResults, out.label, out.found)
                            ELSE siteResults
          /\ calls' = [calls EXCEPT ![c].rec[i] = out,
                                    ![c].wpc[w] = AfterCheckSite(out)]
    /\ UNCHANGED callFrame

\* lines 185-192
CallReturn(c) ==
    /\ calls[c].pc = "scanning"
    /\ \A w \in DOMAIN calls[c].wpc : calls[c].wpc[w] = Exited
    /\ calls' = [calls EXCEPT ![c].pc = "returned",
                              ![c].ret = FoundLabels(siteResults)]
    /\ UNCHANGED siteResults
    /\ UNCHANGED callFrame

InitCalls ==
    /\ errorState = FALSE
    /\ distrustedChecked = TRUE
    /\ results = {}
    /\ reportedUsers = {}
    /\ catCache = None
    /\ stateCache = None
    /\ emitted = EmptyBag
    /\ event = None
    /\ ret = <<>>
    /\ distrust = <<>>
    /\ calRounds = 0
    /\ nSetup = 1
    /\ lookups = EmptyBag
    /\ calSites = None
    /\ lock = None
    /\ pc = "calls"
    /\ \E m \in 1..MaxThreads : opts = [DefaultOpts EXCEPT !.maxthreads = m]
    /\ sites \in CallSiteLists
    /\ calls = [c \in 1..2 |-> CallIdle(CallNames[c])]
    /\ username = <<>>
    /\ scanSites = <<>>
    /\ siteResults = <<>>
    /\ queue = <<>>
    /\ wpc = <<>>
    /\ resp = <<>>
    /\ rec = <<>>
    /\ probes = <<>>

NextCalls ==
    \/ \E c \in CallIds : CallStart(c)
    \/ \E c \in CallIds : \E w \in DOMAIN calls[c].wpc : CallDequeue(c, w)
    \/ \E c \in CallIds : \E w \in DOMAIN calls[c].wpc : CallThreadExit(c, w)
    \/ \E c \in CallIds : \E w \in DOMAIN calls[c].wpc :
          \E res \in SessionFetchResults(calls[c].username) :
              CallProbe(c, w, res)
    \/ \E c \in CallIds : CallReturn(c)

SpecCalls == InitCalls /\ [][NextCalls]_vars

(***************************************************************************)
(* The collaborators of the module: the cache, the dictionaries, the       *)
(* global options and domainKeyword of the SpiderFoot library.             *)
(***************************************************************************)
\* sf.cacheGet(label, hours) inside the validity window: what was put
CacheGet(cache) == cache

\* sf.cachePut(label, data) of a str: the text itself
CachePutText(text) == Some(text)

\* sf.cachePut(label, data) of a list: every element followed by "\n"
CachePutLines(lines) ==
    Some(Concat([i \in 1..Len(lines) |-> lines[i] \o <<"\n">>]))

\* self.opts['_genericusers']
GenericUsersOpt == <<"a","d","m","i","n",",","r","o","o","t">>
\* sf.dictnames()
DictNames == {txtBob}
\* sf.dictwords()
DictWords == {txtOk}
\* self.opts['_internettlds']
InternetTlds == {<<"x">>}

\* sf.domainKeyword(domain, tlds): the label before the TLD, None without one
DomainKeyword(domain) ==
    LET parts == Split(domain, <<".">>)
    IN IF Len(parts) >= 2 /\ parts[Len(parts)] \in InternetTlds
          /\ parts[Len(parts) - 1] # <<>>
       THEN Some(parts[Len(parts) - 1])
       ELSE None

(***************************************************************************)
(* setup (lines 59-93).                                                    *)
(***************************************************************************)
\* what the catalog feed may hold
Feeds ==
    [ F1 |-> [parsable |-> TRUE, sites |-> <<"A","B","I">>],
      F2 |-> [parsable |-> TRUE, sites |-> <<"A","A">>],
      F3 |-> [parsable |-> TRUE, sites |-> <<"A","A2">>],
      F4 |-> [parsable |-> TRUE, sites |-> <<"Q","A">>],
      F5 |-> [parsable |-> TRUE, sites |-> <<"A","V">>],
      F6 |-> [parsable |-> TRUE, sites |-> <<"Z","A">>],
      F7 |-> [parsable |-> TRUE, sites |-> <<"O","A">>],
      G  |-> [parsable |-> FALSE, sites |-> <<>>] ]

\* the feeds that the sessions of Spec are given
SessionFeeds == {"F1", "F2", "F3", "F4", "F5", "G"}

\* what fetching the feed may return in data['content']
FeedFetches == {None} \cup { Some(f) : f \in SessionFeeds }

\* the userOpts that setup is called with; None: the key is not given
NoUserOpts == [maxthreads |-> None, musthavename |-> None]
UserOptsValues ==
    {NoUserOpts}
    \cup { [NoUserOpts EXCEPT !.maxthreads = Some(m)] : m \in 0..MaxUserThreads }

\* lines 69-70
MergeOpts(o, u) ==
    [o EXCEPT !.maxthreads = IF IsNone(u.maxthreads) THEN @
                             ELSE Val(u.maxthreads),
              !.musthavename = IF IsNone(u.musthavename) THEN @
                               ELSE Val(u.musthavename)]

\* line 89 raises: the content is no JSON, or a site has no 'valid'
ParseFails(feed) ==
    \/ ~Feeds[feed].parsable
    \/ \E i \in 1..Len(Feeds[feed].sites) :
          IsNone(SiteDef(Feeds[feed].sites[i]).valid)

\* line 89
ValidSites(feed) ==
    SelectSeq(Feeds[feed].sites, LAMBDA id : Val(SiteDef(id).valid))

Setup(userOpts, fetched) ==
    /\ pc \in {"new", "idle"}
    /\ nSetup < MaxSetups
    /\ nSetup' = nSetup + 1
    /\ pc' = "idle"
    /\ results' = {}
    /\ reportedUsers' = {}
    /\ distrustedChecked' = FALSE
    /\ opts' = MergeOpts(opts, userOpts)
    /\ LET cached == CacheGet(catCache)
           content == IF IsNone(cached) THEN fetched ELSE cached
       IN IF IsNone(content)
          THEN /\ errorState' = TRUE
               /\ UNCHANGED <<sites, catCache>>
          ELSE /\ catCache' = content
               /\ IF ParseFails(Val(content))
                  THEN /\ errorState' = TRUE
                       /\ UNCHANGED sites
                  ELSE /\ errorState' = FALSE
                       /\ sites' = ValidSites(Val(content))
    /\ emitted' = EmptyBag
    /\ event' = None
    /\ distrust' = <<>>
    /\ lookups' = EmptyBag
    /\ lock' = None
    /\ UNCHANGED <<stateCache, calRounds, ret, calSites, calls>>
    /\ UNCHANGED scanVars

(***************************************************************************)
(* handleEvent (lines 194-296).                                            *)
(***************************************************************************)
Self == "sfp_accounts"
Event(type, data, module) == [type |-> type, data |-> data, module |-> module]

\* the events other modules send
ExternalEvents ==
    { Event("USERNAME", txtBobAbc, "sfp_names"),
      Event("HUMAN_NAME", <<"B","o","b"," ","A","b","c">>, "sfp_names"),
      Event("EMAILADDR", <<"B","o","b","@","x">>, "sfp_email"),
      Event("DOMAIN_NAME", <<"x">>, "sfp_dns") }

\* the USERNAME events of this module that come back to it
OwnEvents ==
    { Event("USERNAME", e.data, Self) :
        e \in { x \in BagToSet(emitted) : x.type = "USERNAME" } }

\* the identifier of the calibration: ten characters of randpool (lines 229-230)
RandUsers == { <<"x","7","k","2","m","9","q","4","z","1">> }

\* a variant of Dropped without the test of line 210
DroppedNotSeen(ev) ==
    \/ errorState
    \/ ev.type # "USERNAME" /\ ev.module = Self

\* a variant of InErrorState that never sees the error state
InErrorStateIgnored == FALSE

\* line 200
InErrorState == errorState

\* lines 200-211: the event is dropped before anything is done
Dropped(ev) ==
    \/ InErrorState
    \/ ev.type # "USERNAME" /\ ev.module = Self
    \/ ev.data \in results

\* a variant of CacheHit that takes every lookup for a miss
CacheHitNever(content) == FALSE

\* line 220: if content
CacheHit(content) == ~IsNone(content) /\ Val(content) # <<>>

\* lines 222-226: the lines of the cached text that are not empty
CachedNames(text) == SelectSeq(Split(text, <<"\n">>), LAMBDA l : l # <<>>)

\* line 235
SiteNameOf(label) == SplitFirst(label, CategorySplit)

\* lines 233-237
DistrustedNames(res) == [i \in 1..Len(res) |-> SiteNameOf(res[i])]

\* a variant of Prune that keeps every site
PruneNothing(list, delsites) == list

\* lines 227 and 238
Prune(list, delsites) ==
    SelectSeq(list, LAMBDA id : Val(SiteDef(id).name) \notin Range(delsites))

\* lines 194-231: up to the calibration scan, or past the cached state
HandleEvent(ev) ==
    /\ pc = "idle"
    /\ event' = Some(ev)
    /\ IF Dropped(ev)
       THEN UNCHANGED <<results, distrustedChecked, sites, distrust, calRounds,
                        pc, scanVars>>
       ELSE /\ results' = results \cup {ev.data}
            /\ IF distrustedChecked
               THEN /\ pc' = "derive"
                    /\ UNCHANGED <<distrustedChecked, sites, distrust,
                                   calRounds, scanVars>>
               ELSE LET content == CacheGet(stateCache) IN
                 IF CacheHit(content)
                 THEN /\ IF Val(content) # NoneMarker
                         THEN /\ sites' = Prune(sites, CachedNames(Val(content)))
                              /\ distrust' = CachedNames(Val(content))
                         ELSE UNCHANGED <<sites, distrust>>
                      /\ distrustedChecked' = TRUE
                      /\ pc' = "derive"
                      /\ UNCHANGED <<calRounds, scanVars>>
                 ELSE /\ \E randuser \in RandUsers : StartScan(randuser, sites)
                      /\ pc' = "calibrate"
                      /\ calRounds' = calRounds + 1
                      /\ UNCHANGED <<distrustedChecked, sites, distrust>>
    /\ UNCHANGED <<opts, errorState, reportedUsers, catCache, stateCache,
                   emitted, ret, nSetup, histVars>>

\* lines 231-244: the calibration scan is over
CalibrateReturn ==
    /\ pc = "calibrate"
    /\ Joined
    /\ LET res == FoundLabels(siteResults) IN
         /\ ret' = res
         /\ IF res # <<>>
            THEN /\ sites' = Prune(sites, DistrustedNames(res))
                 /\ distrust' = DistrustedNames(res)
                 /\ stateCache' = CachePutLines(DistrustedNames(res))
            ELSE /\ stateCache' = CachePutText(NoneMarker)
                 /\ UNCHANGED <<sites, distrust>>
    /\ calSites' = Some(sites')
    /\ distrustedChecked' = TRUE
    /\ pc' = "derive"
    /\ UNCHANGED <<opts, errorState, results, reportedUsers, catCache, emitted,
                   event, calRounds, nSetup, lookups, lock, calls>>
    /\ UNCHANGED scanVars

\* lines 246-263: set(users), and whether line 254 returns
Users(ev) ==
    CASE ev.type = "HUMAN_NAME" ->
           {RemoveSpaces(Lower(ev.data)), SpacesToDots(Lower(ev.data))}
      [] ev.type = "DOMAIN_NAME" ->
           IF IsNone(DomainKeyword(ev.data)) THEN {}
           ELSE {Val(DomainKeyword(ev.data))}
      [] ev.type = "EMAILADDR" -> {Lower(SplitFirst(ev.data, <<"@">>))}
      [] ev.type = "USERNAME" -> {ev.data}
      [] OTHER -> {}

NoKeyword(ev) == ev.type = "DOMAIN_NAME" /\ IsNone(DomainKeyword(ev.data))

\* lines 266-276: the user is skipped
Skip(user) ==
    \/ user \in Range(Split(GenericUsersOpt, <<",">>))
    \/ opts.ignorenamedict /\ user \in DictNames
    \/ opts.ignoreworddict /\ user \in DictWords

\* lines 265-281: the users a USERNAME event is sent for
NewUsers(ev) ==
    { user \in Users(ev) :
        ~Skip(user) /\ user \notin reportedUsers /\ ev.data # user }

UsernameEvents(users) ==
    SetToBag({ Event("USERNAME", u, Self) : u \in users })

\* lines 246-288: from the derivation of the users to the lookup scan
DeriveUsers ==
    /\ pc = "derive"
    /\ LET ev == Val(event) IN
         IF NoKeyword(ev)
         THEN /\ pc' = "idle"
              /\ UNCHANGED <<emitted, reportedUsers, queue, siteResults,
                             lookups>>
              /\ username' = <<>>
              /\ scanSites' = <<>>
              /\ wpc' = <<>>
              /\ resp' = <<>>
              /\ rec' = <<>>
              /\ probes' = <<>>
         ELSE /\ emitted' = emitted (+) UsernameEvents(NewUsers(ev))
              /\ reportedUsers' = reportedUsers \cup NewUsers(ev)
              /\ IF ev.type = "USERNAME"
                 THEN /\ StartScan(ev.data, sites)
                      /\ lookups' = lookups (+) SetToBag({ev.data})
                      /\ pc' = "lookup"
                 ELSE /\ pc' = "idle"
                      /\ UNCHANGED <<queue, siteResults, lookups>>
                      /\ username' = <<>>
                      /\ scanSites' = <<>>
                      /\ wpc' = <<>>
                      /\ resp' = <<>>
                      /\ rec' = <<>>
                      /\ probes' = <<>>
    /\ UNCHANGED <<opts, sites, errorState, distrustedChecked, results,
                   catCache, stateCache, event, ret, distrust, calRounds,
                   nSetup, calSites, lock, calls>>

\* lines 289-296: one event for every element of res
AccountEvents(res) ==
    BagOfSeq([i \in 1..Len(res) |->
                 Event("ACCOUNT_EXTERNAL_OWNED", res[i], Self)])

\* lines 288-296: the lookup scan is over
LookupReturn ==
    /\ pc = "lookup"
    /\ Joined
    /\ ret' = FoundLabels(siteResults)
    /\ emitted' = emitted (+) AccountEvents(FoundLabels(siteResults))
    /\ pc' = "idle"
    /\ wpc' = <<>>
    /\ resp' = <<>>
    /\ rec' = <<>>
    /\ username' = <<>>
    /\ scanSites' = <<>>
    /\ probes' = <<>>
    /\ UNCHANGED <<queue, siteResults>>
    /\ UNCHANGED <<opts, sites, errorState, distrustedChecked, results,
                   reportedUsers, catCache, stateCache, event, distrust,
                   calRounds, nSetup, histVars>>

\* the instances of the module: the k-th setup call is made on instance k
Instances == 1..MaxSetups

\* self.opts as instance k reads it: no instance has an opts attribute of its
\* own, so the lookup ends at the dict of the class (lines 34-40, 70)
OptsSeenBy(k) == opts

Init ==
    /\ InitSession
    /\ pc = "new"
    /\ opts = DefaultOpts
    /\ username = <<>>
    /\ scanSites = <<>>
    /\ siteResults = <<>>
    /\ queue = <<>>
    /\ wpc = <<>>
    /\ resp = <<>>
    /\ rec = <<>>
    /\ probes = <<>>

Next ==
    \/ \E u \in UserOptsValues, f \in FeedFetches : Setup(u, f)
    \/ \E ev \in ExternalEvents \cup OwnEvents : HandleEvent(ev)
    \/ CalibrateReturn
    \/ DeriveUsers
    \/ LookupReturn
    \/ \E w \in DOMAIN wpc : Dequeue(w)
    \/ \E w \in DOMAIN wpc : ThreadExit(w)
    \/ \E w \in DOMAIN wpc :
          \E res \in SessionFetchResults(username) : Probe(w, res)

Spec == Init /\ [][Next]_vars

(***************************************************************************)
(* Sessions whose events carry names that are their own identifier or are  *)
(* filtered names, on catalogs with a site of the empty name and a site    *)
(* named as the empty marker.                                              *)
(***************************************************************************)
txtAbc == <<"a","b","c">>

NameEvents ==
    { Event("USERNAME", txtBob, "sfp_names"),
      Event("HUMAN_NAME", txtAbc, "sfp_names"),
      Event("EMAILADDR", <<"a","b","c","@","x">>, "sfp_email"),
      Event("USERNAME", <<"r","o","o","t">>, "sfp_names") }

NameFeeds == {"F1", "F6", "F7"}

NextNames ==
    \/ \E f \in {None} \cup { Some(g) : g \in NameFeeds } : Setup(NoUserOpts, f)
    \/ \E ev \in NameEvents \cup OwnEvents : HandleEvent(ev)
    \/ CalibrateReturn
    \/ DeriveUsers
    \/ LookupReturn
    \/ \E w \in DOMAIN wpc : Dequeue(w)
    \/ \E w \in DOMAIN wpc : ThreadExit(w)
    \/ \E w \in DOMAIN wpc :
          \E res \in SessionFetchResults(username) : Probe(w, res)

SpecNames == Init /\ [][NextNames]_vars

(***************************************************************************)
(* The properties.  What the claims call the match algorithm is stated     *)
(* here on its own, with no use of the definitions of checkSite.           *)
(***************************************************************************)
\* sub occurs in s
Occurs(sub, s) ==
    \E i \in 0..(Len(s) - Len(sub)) :
        \A j \in 1..Len(sub) : s[i + j] = sub[j]

SameLetter(a, b) ==
    \/ a = b
    \/ \E k \in 1..26 : {a, b} = {UpperAlphabet[k], LowerAlphabet[k]}

\* sub occurs in s, whatever the case of the letters
OccursAnyCase(sub, s) ==
    \E i \in 0..(Len(s) - Len(sub)) :
        \A j \in 1..Len(sub) : SameLetter(s[i + j], sub[j])

HasDot(name) == \E k \in 1..Len(name) : name[k] = "."

\* what stands before the first "." of a name that has one
BeforeDot(name) ==
    LET k == CHOOSE k \in 1..Len(name) :
                 name[k] = "." /\ \A m \in 1..(k - 1) : name[m] # "."
    IN [m \in 1..(k - 1) |-> name[m]]

BodyOf(r) == Val(Val(r).content)

HasBody(r) == ~IsNone(r) /\ ~IsNone(Val(r).content) /\ BodyOf(r) # <<>>

\* the response r of the site satisfies the match algorithm for the name
Matches(name, site, r, musthavename) ==
    /\ HasBody(r)
    /\ Val(r).code = site.account_existence_code
    /\ ~IsNone(site.account_existence_string)
    /\ Occurs(Val(site.account_existence_string), BodyOf(r))
    /\ musthavename => OccursAnyCase(name, BodyOf(r))
    /\ HasDot(name) =>
          /\ ~Occurs(BeforeDot(name) \o <<"<">>, BodyOf(r))
          /\ ~Occurs(BeforeDot(name) \o <<"\"">>, BodyOf(r))

\* the sites of the running scan, by their place in the list
Places == DOMAIN scanSites
SiteAt(i) == SiteDef(scanSites[i])
MatchesAt(i) == Matches(username, SiteAt(i), resp[i], opts.musthavename)
Probed(i) == rec[i].kind # "unprobed"
RecordedFound(i) == rec[i].kind = "wrote" /\ rec[i].found
HasLabel(i) ==
    /\ ~IsNone(SiteAt(i).check_uri)
    /\ \A k \in 1..Len(Val(SiteAt(i).check_uri)) :
          Val(SiteAt(i).check_uri)[k] \notin OtherFields
    /\ ~IsNone(SiteAt(i).name)
    /\ ~IsNone(SiteAt(i).category)
LabelAt(i) == RetName(username, SiteAt(i))
SameLabel(i, j) == HasLabel(i) /\ HasLabel(j) /\ LabelAt(i) = LabelAt(j)
Returned == pc = "returned"

\* every returned label is the label of a site of the list whose response
\* satisfies the match algorithm
ReturnedLabelsMatch ==
    \A l \in Range(ret) :
        \E i \in Places : HasLabel(i) /\ LabelAt(i) = l /\ MatchesAt(i)

\* C1 as stated: checkSites returns the labels of the sites whose response
\* satisfies the match algorithm, all of them and no others.
C1_AsStated ==
    Returned =>
        /\ ReturnedLabelsMatch
        /\ \A i \in Places : MatchesAt(i) => LabelAt(i) \in Range(ret)

\* C1, amended: every returned label is the label of a site of the list whose
\* response satisfies the match algorithm; and the label of a site whose
\* response satisfies it is returned, unless another site of the list has the
\* same label and a response that does not satisfy it.
C1_ReturnedLabels ==
    Returned =>
        /\ ReturnedLabelsMatch
        /\ \A i \in Places :
              (/\ MatchesAt(i)
               /\ \A j \in Places : SameLabel(i, j) /\ rec[j].kind = "wrote"
                                       => MatchesAt(j))
              => LabelAt(i) \in Range(ret)

\* a scan of several sites has returned some labels and not others
C1_Witness ==
    /\ Returned
    /\ Len(ret) >= 1
    /\ \E i, j \in Places : MatchesAt(i) /\ ~MatchesAt(j) /\ ~IsNone(resp[j])
                              /\ LabelAt(j) \notin Range(ret)

\* C2: one checkSite call records found = true exactly when the response
\* passes all the checks of the match algorithm; an empty body decides
\* not-found before the status code is looked at, and a wrong status code
\* decides it before the expected text is looked for.
C2_FoundIffAllChecks ==
    \A i \in Places :
        Probed(i) =>
           /\ RecordedFound(i) <=> MatchesAt(i)
           /\ (~IsNone(resp[i]) /\ ~HasBody(resp[i]))
                 => rec[i] = Wrote(LabelAt(i), FALSE)
           /\ (HasBody(resp[i])
                 /\ Val(resp[i]).code # SiteAt(i).account_existence_code)
                 => rec[i] = Wrote(LabelAt(i), FALSE)

\* a name with a "." is recorded as found, the name having to be mentioned
C2_Witness ==
    /\ opts.musthavename
    /\ HasDot(username)
    /\ \E i \in Places : RecordedFound(i)

txtBobLt == <<"b","o","b","<">>
txtBobQuote == <<"b","o","b","\"">>

\* the criteria other than the punctuation rule
MeetsOtherCriteria(i) ==
    /\ HasBody(resp[i])
    /\ Val(resp[i]).code = SiteAt(i).account_existence_code
    /\ ~IsNone(SiteAt(i).account_existence_string)
    /\ Occurs(Val(SiteAt(i).account_existence_string), BodyOf(resp[i]))
    /\ OccursAnyCase(username, BodyOf(resp[i]))

\* C3 as stated: for "bob.abc", a body with "bob<" is not-found, and a body
\* with "bob.abc" that meets the other criteria is found.
C3_AsStated ==
    \A i \in Places :
        (username = txtBobAbc /\ Probed(i) /\ ~IsNone(resp[i])) =>
           /\ (HasBody(resp[i]) /\ Occurs(txtBobLt, BodyOf(resp[i])))
                 => ~RecordedFound(i)
           /\ (MeetsOtherCriteria(i) /\ Occurs(txtBobAbc, BodyOf(resp[i])))
                 => RecordedFound(i)

\* C3, amended: for "bob.abc", a body with "bob<" is not-found, and a body
\* with "bob.abc" that meets the other criteria and holds neither "bob<" nor
\* bob followed by a double quote is found.
C3_PunctuationRule ==
    \A i \in Places :
        (username = txtBobAbc /\ Probed(i) /\ ~IsNone(resp[i])) =>
           /\ (HasBody(resp[i]) /\ Occurs(txtBobLt, BodyOf(resp[i])))
                 => ~RecordedFound(i)
           /\ (/\ MeetsOtherCriteria(i)
               /\ Occurs(txtBobAbc, BodyOf(resp[i]))
               /\ ~Occurs(txtBobLt, BodyOf(resp[i]))
               /\ ~Occurs(txtBobQuote, BodyOf(resp[i])))
                 => RecordedFound(i)

\* "bob.abc" is found in a body that holds it
C3_Witness ==
    /\ username = txtBobAbc
    /\ \E i \in Places :
          /\ RecordedFound(i)
          /\ Occurs(txtBobAbc, BodyOf(resp[i]))

\* the probe of the site failed: the site definition is malformed, checkSite
\* raised, or the fetch gave no body
Failed(i) ==
    /\ Probed(i)
    /\ \/ rec[i].kind \in {"skipped", "raised"}
       \/ ~IsNone(resp[i]) /\ ~HasBody(resp[i])

\* no thread has returned while sites are left in the queue, and when the
\* scan returns after a failure every site of the list has been probed
ScanGoesOn ==
    /\ \A w \in DOMAIN wpc : wpc[w] = Exited => queue = <<>>
    /\ (Returned /\ \E i \in Places : Failed(i)) => \A j \in Places : Probed(j)

\* C4 as stated: a failed probe does not end the scan, the thread goes on,
\* every other site is probed, and the label of the failing site is not
\* returned.
C4_AsStated ==
    /\ ScanGoesOn
    /\ Returned =>
          \A i \in Places :
              Failed(i) /\ HasLabel(i) => LabelAt(i) \notin Range(ret)

\* C4, amended: a failed probe does not end the scan, the thread goes on,
\* every other site is probed, and the label of the failing site is not
\* returned unless another site of the list has the same label and a response
\* that satisfies the match algorithm.
C4_FailureIsLocal ==
    /\ ScanGoesOn
    /\ Returned =>
          \A i \in Places :
              Failed(i) /\ HasLabel(i) =>
                 \/ LabelAt(i) \notin Range(ret)
                 \/ \E j \in Places \ {i} : SameLabel(i, j) /\ MatchesAt(j)

\* a scan in which checkSite raised has returned the label of another site
C4_Witness ==
    /\ Returned
    /\ Len(ret) >= 1
    /\ \E i \in Places : Failed(i) /\ rec[i].kind = "raised"

\* the probes in flight: the threads between queue.get and the end of checkSite
InFlight == Cardinality({ w \in DOMAIN wpc : wpc[w].at = "probe" })

\* C5: at any time of a scan at most min(len(sites), _maxthreads) probes are
\* in flight.
C5_InFlightBound == InFlight <= Min(Len(scanSites), opts.maxthreads)

\* as many probes in flight as _maxthreads allows, with more sites than that
C5_Witness ==
    /\ Len(scanSites) > opts.maxthreads
    /\ opts.maxthreads >= 2
    /\ InFlight = opts.maxthreads

\* C6: whatever number of handleEvent calls have reached the calibration
\* step, in one session or in sessions that follow one another, exactly one
\* calibration round has been run: never a second one, and one as soon as a
\* call is past the step.
C6_OneCalibrationRound ==
    /\ calRounds <= 1
    /\ distrustedChecked => calRounds = 1

\* two events have gone through the calibration step in the second session
C6_Witness ==
    /\ nSetup = 2
    /\ Cardinality(results) >= 2
    /\ distrustedChecked
    /\ pc = "idle"

\* the handler has just come back from the calibration scan (line 244)
AfterCalibration == pc = "derive" /\ username \in RandUsers

\* the sites that reported found = true in the scan
FoundPlaces == { i \in Places : RecordedFound(i) }

\* no two sites of the scanned list have the same name
DistinctNames ==
    \A i, j \in Places : i # j => SiteAt(i).name # SiteAt(j).name

\* C7 as stated, on the catalogs whose sites all have different names: the
\* cache lookup is a miss before any calibration; after a calibration in
\* which no site reports found the cache holds the empty marker; after one in
\* which N sites report found it holds exactly the names of those sites, and
\* reads back as neither a miss nor the marker.
C7_AsStated ==
    /\ calRounds = 0 => IsNone(CacheGet(stateCache))
    /\ (AfterCalibration /\ DistinctNames) =>
          IF FoundPlaces = {}
          THEN CacheGet(stateCache) = Some(NoneMarker)
          ELSE /\ CacheHit(CacheGet(stateCache))
               /\ Val(CacheGet(stateCache)) # NoneMarker
               /\ Range(CachedNames(Val(CacheGet(stateCache))))
                     = { Val(SiteAt(i).name) : i \in FoundPlaces }

\* C8 as stated, on the catalogs whose sites all have different names: after
\* a calibration run the sites removed from the catalog are exactly the sites
\* that reported found = true.
C8_AsStated ==
    (AfterCalibration /\ DistinctNames) =>
        \A i \in Places : scanSites[i] \notin Range(sites) <=> RecordedFound(i)

\* C9: in the catalog error state, and until setup is called again, a
\* handleEvent call starts no scan, emits no event, runs no calibration and
\* leaves the distrust-state cache alone; the error state stays.
C9_ErrorStateShortCircuits ==
    [][ (errorState /\ nSetup' = nSetup) =>
           /\ errorState'
           /\ pc' = "idle"
           /\ UNCHANGED <<emitted, stateCache, calRounds, distrustedChecked,
                          results, reportedUsers, sites, scanVars>> ]_vars

\* handleEvent has been called in the error state
C9_Witness == errorState /\ ~IsNone(event)

\* the sites of the catalog that was loaded
CatalogIds ==
    IF IsNone(catCache) THEN {} ELSE Range(Feeds[Val(catCache)].sites)

\* C10: a lookup scan starts only once the calibration state is resolved,
\* it probes no site whose name is in the distrust list of the session, and
\* no ACCOUNT_EXTERNAL_OWNED event of the session is for such a site.
C10_DistrustedSitesLeftOut ==
    /\ pc = "lookup" =>
          /\ distrustedChecked
          /\ \A i \in Places : Val(SiteAt(i).name) \notin Range(distrust)
    /\ \A e \in BagToSet(emitted) :
          e.type = "ACCOUNT_EXTERNAL_OWNED" =>
             \A id \in CatalogIds, u \in results :
                 (Fetches(SiteDef(id)) /\ RetName(u, SiteDef(id)) = e.data)
                    => Val(SiteDef(id).name) \notin Range(distrust)

\* an account has been reported in a session that distrusts some site
C10_Witness ==
    /\ distrust # <<>>
    /\ \E e \in BagToSet(emitted) : e.type = "ACCOUNT_EXTERNAL_OWNED"

(***************************************************************************)
(* The worker pool: barrier, termination, writes.                          *)
(***************************************************************************)
\* C15: checkSites reads the result map only when every thread has
\* terminated, and then, _maxthreads being 1 or more, the queue is empty and
\* checkSite has been called exactly once for every site of the list.
C15_BarrierAndCompleteness ==
    Returned =>
        /\ \A w \in DOMAIN wpc : wpc[w] = Exited
        /\ opts.maxthreads >= 1 =>
              /\ queue = <<>>
              /\ \A i \in Places : Probed(i) /\ probes[i] = 1

\* a scan of three sites by two threads has returned
C15_Witness ==
    /\ Returned
    /\ Len(scanSites) = 3
    /\ Len(wpc) = 2
    /\ \A i \in Places : probes[i] = 1

\* C16: with threads that are scheduled and fetches that return, every scan
\* comes to the point where checkSites returns.
C16_Termination == <>(pc = "returned")

\* every thread of a scan of several sites has left on the empty queue
C16_Witness ==
    /\ Returned
    /\ Len(wpc) >= 2
    /\ \A w \in DOMAIN wpc : wpc[w] = Exited
    /\ \E i \in Places : rec[i].kind = "raised"

\* no site is probed twice, and no two probes have written the same key
NoKeyWrittenTwice ==
    /\ \A i \in Places : probes[i] <= 1
    /\ \A i, j \in Places :
          (i # j /\ rec[i].kind = "wrote" /\ rec[j].kind = "wrote")
             => rec[i].label # rec[j].label

\* C17 as stated: in a scan of any site list no key of the result map is
\* written twice.
C17_AsStated == NoKeyWrittenTwice

\* C17, amended: in a scan of a site list whose entries have different
\* labels for the name, no key of the result map is written twice.
C17_DistinctLabelsWrittenOnce ==
    (\A i, j \in Places : i # j => ~SameLabel(i, j)) => NoKeyWrittenTwice

\* three sites of different labels have each written their key
C17_Witness ==
    /\ Returned
    /\ Len(scanSites) = 3
    /\ \A i, j \in Places : i # j => ~SameLabel(i, j)
    /\ \A i \in Places : rec[i].kind = "wrote"

\* the threads that are inside a with self.lock block
InsideWrite == { w \in DOMAIN wpc : wpc[w].at \in {"locked", "written"} }

\* a thread inside a with block holds the lock, one thread at most is inside
WritesUnderLock ==
    /\ \A w \in InsideWrite : lock = Some(w)
    /\ Cardinality(InsideWrite) <= 1

\* the map holds the key of the outcome that the probe of site i wrote
KeyKept(i) == \E k \in DOMAIN siteResults : siteResults[k].key = rec[i].label

\* the map holds the outcome that the probe of site i wrote
OutcomeKept(i) ==
    \E k \in DOMAIN siteResults :
        siteResults[k] = [key |-> rec[i].label, found |-> rec[i].found]

\* C18 as stated: a thread writes to the map only while it holds the lock,
\* one thread at most is inside a write, and when the map is read after the
\* join it holds every outcome that was written, with the value written.
C18_AsStated ==
    /\ WritesUnderLock
    /\ Returned => \A i \in Places : rec[i].kind = "wrote" => OutcomeKept(i)

\* C18, amended: a thread writes to the map only while it holds the lock,
\* one thread at most is inside a write, and when the map is read after the
\* join it holds the key of every outcome that was written, with the value
\* written unless another site of the list wrote the same key.
C18_LockedWritesKept ==
    /\ WritesUnderLock
    /\ Returned =>
          \A i \in Places : rec[i].kind = "wrote" =>
              /\ KeyKept(i)
              /\ (\A j \in Places \ {i} : rec[j].kind = "wrote"
                                             => rec[j].label # rec[i].label)
                    => OutcomeKept(i)

\* a thread is inside a write while another one waits for the lock
C18_Witness ==
    \E w, v \in DOMAIN wpc :
        /\ wpc[w].at = "written"
        /\ wpc[v].at = "decided"
        /\ Len(siteResults) >= 1

\* the labels that the probes of call c have recorded as found
CallFound(c) ==
    { calls[c].rec[i].label :
        i \in { j \in DOMAIN calls[c].rec :
                   calls[c].rec[j].kind = "wrote" /\ calls[c].rec[j].found } }

\* C14 as stated: of two checkSites calls for different names that may
\* overlap on one instance, each returns the labels that its own probes
\* recorded as found, all of them and no others.
C14_AsStated ==
    \A c \in CallIds :
        calls[c].pc = "returned" => Range(calls[c].ret) = CallFound(c)

\* C19 as stated: a setup call on one instance leaves the options that
\* every other instance reads as they were.
C19_AsStated ==
    [][ \A k \in Instances :
           k # nSetup' => OptsSeenBy(k)' = OptsSeenBy(k) ]_vars

(***************************************************************************)
(* The events of a session.                                                *)
(***************************************************************************)
UsernameEvent(u) == Event("USERNAME", u, Self)
AccountEvent(l) == Event("ACCOUNT_EXTERNAL_OWNED", l, Self)

\* the step is one of handleEvent or of its scans, not a setup call
SameSession == nSetup' = nSetup

\* the step in which handleEvent is past lines 246-281
Derives == pc = "derive" /\ pc' # "derive"

\* handleEvent is on its way to the lookup scan of the name u
BeingHandled(u) ==
    /\ pc \in {"calibrate", "derive"}
    /\ Val(event).type = "USERNAME"
    /\ Val(event).data = u

\* the USERNAME events of the module whose delivery handleEvent ignores have
\* had their name looked up
IgnoredOnlyIfLookedUp ==
    \A e \in BagToSet(emitted) :
        (e.type = "USERNAME" /\ e.data \in results)
           => e.data \in BagToSet(lookups) \/ BeingHandled(e.data)

\* C11 as stated, for the events that are not USERNAME events: when
\* handleEvent has derived the identifiers of an event, a USERNAME event has
\* been emitted for each of them that was not reported before and is not
\* filtered; and no such USERNAME event is ignored when it comes back to
\* the module, unless the name has been looked up in the session.
C11_AsStated ==
    /\ [][ (Derives /\ Val(event).type # "USERNAME") =>
              \A u \in Users(Val(event)) :
                  (u \notin reportedUsers /\ ~Skip(u))
                     => UsernameEvent(u) \in BagToSet(emitted') ]_vars
    /\ []IgnoredOnlyIfLookedUp

\* C12 as stated: no lookup scan is run for a generic account name, nor,
\* the options being set, for a name of the name or word dictionary,
\* whatever event carried it.
C12_AsStated ==
    /\ pc = "lookup" => ~Skip(username)
    /\ \A u \in BagToSet(lookups) : ~Skip(u)

\* the copies of the ACCOUNT_EXTERNAL_OWNED event of label l that a step adds
Added(l) == CopiesIn(AccountEvent(l), emitted') - CopiesIn(AccountEvent(l), emitted)

\* the labels of the ACCOUNT_EXTERNAL_OWNED events before or after a step
AccountLabels ==
    { e.data : e \in { x \in BagToSet(emitted) \cup BagToSet(emitted') :
                         x.type = "ACCOUNT_EXTERNAL_OWNED" } }

\* C13: within a session, ACCOUNT_EXTERNAL_OWNED events are emitted only by
\* the step that ends the lookup scan of the USERNAME event being handled,
\* one for each label the scan returned and no other; no name is looked up
\* twice and no ACCOUNT_EXTERNAL_OWNED event is emitted twice.
C13_AccountsPerLookup ==
    /\ [][ SameSession =>
             /\ (\E l \in AccountLabels : Added(l) # 0) =>
                    /\ pc = "lookup"
                    /\ Val(event).type = "USERNAME"
                    /\ username = Val(event).data
             /\ (pc = "lookup" /\ pc' = "idle") =>
                    \A l \in AccountLabels \cup Range(ret') :
                        Added(l) = IF l \in Range(ret') THEN 1 ELSE 0 ]_vars
    /\ [](\A u \in BagToSet(lookups) : CopiesIn(u, lookups) = 1)
    /\ [](\A e \in BagToSet(emitted) :
              e.type = "ACCOUNT_EXTERNAL_OWNED" => CopiesIn(e, emitted) = 1)

\* two names have been looked up in a session, accounts have been reported
\* for both, and the module's own USERNAME event for a name that had been
\* looked up before has come back
C13_Witness ==
    /\ pc = "idle"
    /\ Cardinality(BagToSet(lookups)) = 2
    /\ Cardinality({ e \in BagToSet(emitted) :
                        e.type = "ACCOUNT_EXTERNAL_OWNED" }) >= 2
    /\ ~IsNone(event)
    /\ Val(event).module = Self
    /\ UsernameEvent(Val(event).data) \in BagToSet(emitted)
    /\ \E e \in ExternalEvents :
          e.type = "USERNAME" /\ e.data = Val(event).data /\ e.data \in results

\* C20 as stated: in a session that has resolved its distrust state, with
\* the catalog that the calibration was run on, self.sites is the catalog as
\* the calibration session pruned it.
C20_AsStated ==
    (distrustedChecked /\ ~IsNone(calSites)) => sites = Val(calSites)

====
